---- MODULE Spec2Model ----
(***************************************************************************)
(* Chunked-upload subsystem of juicebox-omega (src/src/handlers.rs):       *)
(* init_chunked_upload, upload_chunk and complete_chunked_upload running   *)
(* as concurrent request handlers over the shared DashMap registry         *)
(* AppState.chunked_uploads and the files directory.  Every .await of a    *)
(* handler is a point where other handlers may run; a DashMap guard        *)
(* (get_mut) holds the write lock of the key's shard until it is dropped.  *)
(* One action is one stretch of a handler from an await to the next one    *)
(* that touches the registry or the disk (reading the request body and     *)
(* reading a chunk back touch nothing shared and are joined to the file    *)
(* operation that follows them).  An I/O operation either takes effect or  *)
(* fails with an injected fault; the history variables record what the     *)
(* clients were told.  The runtime polls the handlers on NWorkers threads; *)
(* a handler that waits for a shard lock keeps its thread.  SpecCalc is    *)
(* the total_chunks calculation of init on its own, on 64-bit values.      *)
(***************************************************************************)
EXTENDS Integers, Sequences, FiniteSets, TLC

\* ----------------------------------------------------------------- bounds
NTasks        == 2   \* request handlers that can be in flight at once
MaxUploads    == 1   \* upload ids that init generates in one run
MaxCalls      == 5   \* requests dispatched in one run
MaxFaults     == 1   \* I/O faults the environment injects in one run
MaxTotalSize  == 2   \* largest total_size a client declares
MaxChunkSize  == 1   \* largest chunk_size a client declares
MaxIndex      == 1   \* largest chunk index a client sends
MaxPayloadLen == 2   \* longest chunk body a client sends
NShards       == 2   \* shards of the DashMap
NWorkers      == 1   \* worker threads of the tokio runtime
MaxShift      == 2   \* largest k of a chunk_size 2^k in the total_chunks calculation
MaxNameLen    == 3   \* longest raw filename handed to sanitize_filename on its own
MaxKeyLen     == 2   \* longest API key, in bytes
MaxKeyByte    == 2   \* largest byte of an API key
MaxStaged     == 2   \* sessions staged before the file handlers are looked at
MaxFileCalls  == 3   \* requests dispatched once the sessions are staged

\* usize::MAX; the value `f64::INFINITY as usize` saturates to.  TLC's
\* integers are 32 bit, so the largest one stands for 2^64 - 1: it is only
\* ever compared with the size of a set.
USIZE_MAX == 2147483647

\* width of u64 and usize (64-bit target), and of the significand of an f64
U64_BITS     == 64
F64_MANTISSA == 53

Tasks    == 1..NTasks
NoTask   == 0
UploadIds == 1..MaxUploads      \* the ids Uuid::new_v4 hands out, in order
BogusId  == 0                   \* an id a client made up; init never returns it
\* another made-up id, one whose hash selects the shard of the first upload id
StrayId  == MaxUploads * NShards + 1
MadeUpIds == {BogusId, StrayId}
ClientIds == MadeUpIds \cup UploadIds
Shards   == 1..NShards
Indices  == 0..MaxIndex
TotalSizes == 0..MaxTotalSize
ChunkSizes == 0..MaxChunkSize
\* the body of length n is n bytes of value n: bodies differ in length and content
Payloads == { [i \in 1..n |-> n] : n \in 1..MaxPayloadLen }
\* filenames as sequences of one-character strings: a clean name and a
\* traversal attempt that sanitizes to the same name
RawNames == { <<"a">>, <<".", "/", "a">> }

VARIABLES
  chunked_uploads,  \* AppState.chunked_uploads: upload id -> ChunkedUploadMetadata
  shard_lock,       \* DashMap shard -> task holding its write lock (NoTask: free)
  next_id,          \* number of ids generated so far
  chunk_dirs,       \* ids u for which files_dir/.chunks/u exists
  chunk_files,      \* <<u, n>> -> content of files_dir/.chunks/u/chunk_n
  files,            \* name -> content of files_dir/name
  task,             \* request handler -> its position, arguments, locals, response
                    \*   (blocked: it sits on a worker thread inside a DashMap call)
  ncalls,           \* requests dispatched so far
  nfaults,          \* I/O faults injected so far
  acked,            \* history: id -> indices whose ingest returned success
  latest,           \* history: <<u, n>> -> body of the last successful ingest
  sessions,         \* history: id -> metadata as created by init
  issued,           \* history: ids that an init response has given to a client
  removed,          \* history: ids a complete call has removed from the registry
  completed,        \* history: ids for which a complete call returned success
  assemblies,       \* history: id -> number of times assembly was started
  calc,             \* the total_chunks calculation of line 349 on 64-bit values
  san,              \* sanitize_filename applied to one raw name, and applied again
  req               \* one request on its way through the layers of the admin router

sysvars == << chunked_uploads, shard_lock, next_id, chunk_dirs, chunk_files,
              files, task, ncalls, nfaults, acked, latest, sessions, issued,
              removed, completed, assemblies >>

vars == << sysvars, calc, san, req >>

hist == << acked, latest, sessions, issued, removed, completed, assemblies >>

\* ---------------------------------------------------------------- helpers
Max(a, b) == IF a >= b THEN a ELSE b

Restrict(f, S) == [x \in S |-> f[x]]

\* bytes 1..k of d
Prefix(d, k) == SubSeq(d, 1, k)

\* tokio File::write_all of d through a handle positioned at byte offset pos:
\* bytes pos+1 .. pos+Len(d) are overwritten, a gap is zero-filled
WriteAt(c, pos, d) ==
  [i \in 1..Max(Len(c), pos + Len(d)) |->
     IF i > pos /\ i <= pos + Len(d) THEN d[i - pos]
     ELSE IF i <= Len(c) THEN c[i] ELSE 0]

\* utils::sanitize_filename: keep alphanumerics, '.', '-' and '_', then drop
\* the leading run of dots.  A symbol of a name is one character, or a run of
\* letters written as one word ("chunks", "chunk_")
AllowedChars == {"a", "b", "0", "1", "-", "_", ".", "chunks", "chunk_"}

RECURSIVE TrimLeadingDots(_)
TrimLeadingDots(s) ==
  IF s # <<>> /\ Head(s) = "." THEN TrimLeadingDots(Tail(s)) ELSE s

\* the slip of trimming the leading dots before the filter instead of after
sanitize_trim_first(raw) ==
  SelectSeq(TrimLeadingDots(raw), LAMBDA c : c \in AllowedChars)

sanitize_filename(raw) ==
  TrimLeadingDots(SelectSeq(raw, LAMBDA c : c \in AllowedChars))

\* (total_size as f64 / chunk_size as f64).ceil() as usize
\*   x / 0.0 is +inf for x > 0 and NaN for x = 0; `as usize` saturates
\*   +inf to usize::MAX and maps NaN to 0.  For the sizes of Spec, all far
\*   below 2^53, the conversions are exact (total_chunks below has the rounding)
\* the slip of counting one chunk past the quotient: right unless chunk_size
\* divides total_size
TotalChunksPastQuotient(total_size, chunk_size) ==
  IF chunk_size = 0
  THEN IF total_size = 0 THEN 0 ELSE USIZE_MAX
  ELSE total_size \div chunk_size + 1

TotalChunks(total_size, chunk_size) ==
  IF chunk_size = 0
  THEN IF total_size = 0 THEN 0 ELSE USIZE_MAX
  ELSE (total_size + chunk_size - 1) \div chunk_size

\* the slip of storing the client's filename as it came
NewMetadataRaw(payload) ==
  [ filename        |-> payload.filename,
    total_size      |-> payload.total_size,
    chunk_size      |-> payload.chunk_size,
    total_chunks    |-> TotalChunks(payload.total_size, payload.chunk_size),
    received_chunks |-> {} ]

NewMetadata(payload) ==
  [ filename        |-> sanitize_filename(payload.filename),
    total_size      |-> payload.total_size,
    chunk_size      |-> payload.chunk_size,
    total_chunks    |-> TotalChunks(payload.total_size, payload.chunk_size),
    received_chunks |-> {} ]

NoPayload  == [filename |-> <<>>, total_size |-> 0, chunk_size |-> 0]
NoMetadata == [filename |-> <<>>, total_size |-> 0, chunk_size |-> 0,
               total_chunks |-> 0, received_chunks |-> {}]
NoResp     == [a |-> 0, b |-> 0]

IdleTask ==
  [ pc |-> "idle", op |-> "none", status |-> "none", resp |-> NoResp,
    payload |-> NoPayload, upload_id |-> BogusId, chunk_number |-> 0,
    data |-> <<>>, metadata |-> NoMetadata, chunk_num |-> 0,
    pos |-> 0, file_path |-> <<>>,
    blocked |-> FALSE, found |-> FALSE, teardown_failed |-> FALSE,
    stat_failed |-> FALSE,
    late |-> FALSE, overlapped |-> FALSE, faulted |-> FALSE, full |-> FALSE ]

\* t has a request; Running: its handler has not returned yet
InFlight(t) == task[t].pc # "idle"
\* handlers are interchangeable: a request goes to the first free one
FirstFree(t) == ~InFlight(t) /\ \A x \in Tasks : x < t => InFlight(x)
Running(t)  == task[t].pc \notin {"idle", "done"}

\* DashMap::determine_map: the hash of the key selects the shard.  The ids are
\* numbered here and the number stands for the hash: ids that are equal modulo
\* NShards share a shard
ShardOf(u) == (u % NShards) + 1

\* DashMap: an operation on key u takes the write lock of u's shard
ShardFree(u) == shard_lock[ShardOf(u)] = NoTask

\* the indices 0..total_chunks-1 have all been acknowledged to the client
AllReceived(u) ==
  /\ u \in DOMAIN sessions
  /\ sessions[u].total_chunks # USIZE_MAX
  /\ (0 .. sessions[u].total_chunks - 1) \subseteq acked[u]

CanFault == nfaults < MaxFaults

\* main.rs 22-26: the runtime has NWorkers threads to poll the handlers with.
\* A handler suspended at an .await is on no thread; one waiting for a shard
\* lock inside insert, get_mut or remove keeps its thread (the lock is a
\* thread-blocking one).  A handler is polled when it already has a thread or
\* one is left over.
LockPcs == {"init_insert", "chunk_lookup", "complete_remove"}

OnWorker == {t \in Tasks : task[t].blocked}

CanRun(t) == task[t].blocked \/ Cardinality(OnWorker) < NWorkers

\* the handler returns: its locals are dropped (a DashMap guard among them,
\* which frees the shard); the request and the response stay until Respond
Unlock(t) == [s \in Shards |-> IF shard_lock[s] = t THEN NoTask ELSE shard_lock[s]]

Return(t, status, resp, fault) ==
  [task EXCEPT ![t] = [ @ EXCEPT !.pc = "done", !.status = status, !.resp = resp,
                                 !.data = <<>>,
                                 !.metadata = NoMetadata, !.chunk_num = 0,
                                 !.pos = 0, !.blocked = FALSE,
                                 !.faulted = @ \/ fault ]]

\* a request on upload id u is dispatched to idle handler t: calls on the same
\* id that are in flight at that moment overlap with it
Dispatch(t, fields) ==
  [x \in Tasks |->
     IF x = t THEN fields
     ELSE IF /\ Running(x)
             /\ task[x].op \in {"ingest", "complete"}
             /\ fields.op \in {"ingest", "complete"}
             /\ task[x].upload_id = fields.upload_id
          THEN [task[x] EXCEPT !.overlapped = TRUE]
          ELSE task[x]]

Overlaps(t, op, u) ==
  \E x \in Tasks \ {t} : /\ Running(x)
                         /\ task[x].op \in {"ingest", "complete"}
                         /\ op \in {"ingest", "complete"}
                         /\ task[x].upload_id = u

InitSys ==
  /\ chunked_uploads = << >>
  /\ shard_lock = [s \in Shards |-> NoTask]
  /\ next_id = 0
  /\ chunk_dirs = {}
  /\ chunk_files = << >>
  /\ files = << >>
  /\ task = [t \in Tasks |-> IdleTask]
  /\ ncalls = 0
  /\ nfaults = 0
  /\ acked = [u \in ClientIds |-> {}]
  /\ latest = << >>
  /\ sessions = << >>
  /\ issued = {}
  /\ removed = {}
  /\ completed = {}
  /\ assemblies = [u \in ClientIds |-> 0]

NoCalc == [pc |-> "off", total_size |-> {}, shift |-> 0, total_chunks |-> {}]

NoSan == [pc |-> "off", raw |-> <<>>, once |-> <<>>, twice |-> <<>>,
          stored |-> <<>>]

NoHeader == [kind |-> "none", key |-> <<>>]

NoReq == [pc |-> "off", route |-> "none", header |-> NoHeader,
          api_key_hash |-> 0, extension |-> {}, preflight |-> FALSE,
          over_quota |-> FALSE, too_large |-> FALSE, status |-> 0]

Init == InitSys /\ calc = NoCalc /\ san = NoSan /\ req = NoReq

\* ------------------------------------------------- init_chunked_upload
\* request arrives; line 346 draws the id
StartInit(t) ==
  /\ FirstFree(t)
  /\ ncalls < MaxCalls
  /\ next_id < MaxUploads
  /\ \E name \in RawNames, ts \in TotalSizes, cs \in ChunkSizes :
       task' = Dispatch(t, [IdleTask EXCEPT
                      !.pc = "init_insert", !.op = "init",
                      !.upload_id = next_id + 1,
                      !.payload = [filename |-> name, total_size |-> ts,
                                   chunk_size |-> cs]])
  /\ next_id' = next_id + 1
  /\ ncalls' = ncalls + 1
  /\ UNCHANGED << chunked_uploads, shard_lock, chunk_dirs, chunk_files, files,
                  nfaults, hist >>

\* lines 347-360: sanitize, compute total_chunks, insert into the registry
InitInsert(t) ==
  /\ task[t].pc = "init_insert"
  /\ CanRun(t)
  /\ ShardFree(task[t].upload_id)
  /\ LET u == task[t].upload_id
         m == NewMetadata(task[t].payload)
     IN /\ chunked_uploads' = (u :> m) @@ chunked_uploads
        /\ sessions' = (u :> m) @@ sessions
        /\ task' = [task EXCEPT ![t].pc = "init_mkdir", ![t].metadata = m,
                                ![t].blocked = FALSE]
  /\ UNCHANGED << shard_lock, next_id, chunk_dirs, chunk_files, files,
                  ncalls, nfaults, acked, latest, issued, removed, completed,
                  assemblies >>

\* lines 363-382: create_dir_all(.chunks/<id>), then the response
InitMkdir(t) ==
  /\ task[t].pc = "init_mkdir"
  /\ CanRun(t)
  /\ LET u == task[t].upload_id
         m == task[t].metadata
     IN \/ /\ chunk_dirs' = chunk_dirs \cup {u}
           /\ task' = Return(t, "Ok", [a |-> m.chunk_size, b |-> m.total_chunks], FALSE)
           /\ issued' = issued \cup {u}
           /\ UNCHANGED nfaults
        \/ /\ CanFault
           /\ nfaults' = nfaults + 1
           /\ task' = Return(t, "Internal", NoResp, TRUE)
           /\ UNCHANGED << chunk_dirs, issued >>
  /\ UNCHANGED << chunked_uploads, shard_lock, next_id, chunk_files, files,
                  ncalls, acked, latest, sessions, removed, completed,
                  assemblies >>

\* ------------------------------------------------------- upload_chunk
StartChunk(t) ==
  /\ FirstFree(t)
  /\ ncalls < MaxCalls
  /\ \E u \in MadeUpIds \cup issued, n \in Indices :
       /\ task' = Dispatch(t, [IdleTask EXCEPT
                      !.pc = "chunk_lookup", !.op = "ingest",
                      !.upload_id = u, !.chunk_number = n,
                      !.late = (u \in MadeUpIds \/ u \in completed),
                      !.overlapped = Overlaps(t, "ingest", u)])
  /\ ncalls' = ncalls + 1
  /\ UNCHANGED << chunked_uploads, shard_lock, next_id, chunk_dirs,
                  chunk_files, files, nfaults, hist >>

\* the slip of letting the guard go right after the lookup (a clone of the
\* entry instead of the RefMut): nothing stays locked
HoldEntryDropped(t, u) == shard_lock

\* the RefMut that get_mut returns: the shard stays write-locked by t
HoldEntry(t, u) == [shard_lock EXCEPT ![ShardOf(u)] = t]

\* the slip of taking the entry for granted (an `entry().or_default()` where
\* get_mut belongs): every id is found
FoundAlways(cu, u) == TRUE

\* get_mut returns Some: the registry has an entry under the id
Found(cu, u) == u \in DOMAIN cu

\* lines 393-402: get_mut, or 404
ChunkLookup(t) ==
  /\ task[t].pc = "chunk_lookup"
  /\ CanRun(t)
  /\ ShardFree(task[t].upload_id)
  /\ LET u == task[t].upload_id
     IN IF Found(chunked_uploads, u)
        THEN /\ shard_lock' = HoldEntry(t, u)
             /\ task' = [task EXCEPT ![t].pc = "chunk_create", ![t].found = TRUE,
                                     ![t].blocked = FALSE]
        ELSE /\ task' = Return(t, "NotFound", NoResp, FALSE)
             /\ UNCHANGED shard_lock
  /\ UNCHANGED << chunked_uploads, next_id, chunk_dirs, chunk_files, files,
                  ncalls, nfaults, hist >>

\* the slip of leaving the upload id out of the path: every session writes
\* chunk_<n> into one directory
ChunkKeyShared(u, n) == << 1, n >>

\* line 434: the chunk artifact of (id, index), .chunks/<id>/chunk_<n>
ChunkKey(u, n) == << u, n >>

\* the slip of opening without truncation (OpenOptions write + create)
CreateFileKept(fs, k) == IF k \in DOMAIN fs THEN fs ELSE (k :> <<>>) @@ fs

\* tokio::fs::File::create: the file is created, or truncated if it exists
CreateFile(fs, k) == (k :> <<>>) @@ fs

\* lines 404-443: the multipart field and its bytes are read off the request,
\* then File::create(.chunks/<id>/chunk_<n>) creates or truncates the file
ChunkCreate(t) ==
  /\ task[t].pc = "chunk_create"
  /\ CanRun(t)
  /\ LET u == task[t].upload_id
         k == ChunkKey(task[t].upload_id, task[t].chunk_number)
     IN \/ /\ u \in chunk_dirs
           /\ chunk_files' = CreateFile(chunk_files, k)
           /\ \E d \in Payloads :
                task' = [task EXCEPT ![t].pc = "chunk_write", ![t].data = d]
           /\ UNCHANGED << shard_lock, nfaults >>
        \/ /\ task' = Return(t, "BadRequest", NoResp, FALSE)   \* no field in the body
           /\ shard_lock' = Unlock(t)
           /\ UNCHANGED << chunk_files, nfaults >>
        \/ /\ u \notin chunk_dirs                              \* no such directory
           /\ task' = Return(t, "Internal", NoResp, FALSE)
           /\ shard_lock' = Unlock(t)
           /\ UNCHANGED << chunk_files, nfaults >>
        \/ /\ CanFault                          \* field.bytes() or File::create fails
           /\ nfaults' = nfaults + 1
           /\ task' = Return(t, "Internal", NoResp, TRUE)
           /\ shard_lock' = Unlock(t)
           /\ UNCHANGED chunk_files
  /\ UNCHANGED << chunked_uploads, next_id, chunk_dirs, files, ncalls, hist >>

\* the slip of returning before the bytes are handed to the file
PutChunkSkipped(k, pos, d) == chunk_files

\* a write through an open handle; a file unlinked meanwhile takes the bytes
\* with it
PutChunk(k, pos, d) ==
  IF k \in DOMAIN chunk_files
  THEN [chunk_files EXCEPT ![k] = WriteAt(@, pos, d)]
  ELSE chunk_files

\* lines 445-453: write_all; a failing write leaves a proper prefix behind
ChunkWrite(t) ==
  /\ task[t].pc = "chunk_write"
  /\ CanRun(t)
  /\ LET k == ChunkKey(task[t].upload_id, task[t].chunk_number)
         d == task[t].data
     IN \/ /\ chunk_files' = PutChunk(k, 0, d)
           /\ task' = [task EXCEPT ![t].pc = "chunk_sync"]
           /\ UNCHANGED << shard_lock, nfaults >>
        \/ /\ CanFault
           /\ nfaults' = nfaults + 1
           /\ \E j \in 0..(Len(d) - 1) : chunk_files' = PutChunk(k, 0, Prefix(d, j))
           /\ task' = Return(t, "Internal", NoResp, TRUE)
           /\ shard_lock' = Unlock(t)
  /\ UNCHANGED << chunked_uploads, next_id, chunk_dirs, files, ncalls, hist >>

\* the slip of toggling the index (insert, and remove when it was there)
MarkReceivedToggled(m, n) ==
  [m EXCEPT !.received_chunks = IF n \in @ THEN @ \ {n} ELSE @ \cup {n}]

\* the slip of storing a fresh set instead of inserting: earlier marks are lost
MarkReceivedLost(m, n) == [m EXCEPT !.received_chunks = {n}]

\* line 466: metadata.received_chunks.insert(chunk_number), through the guard
MarkReceived(m, n) == [m EXCEPT !.received_chunks = @ \cup {n}]

\* lines 455-477: sync_all, mark the chunk received, respond, drop the guard
ChunkSync(t) ==
  /\ task[t].pc = "chunk_sync"
  /\ CanRun(t)
  /\ LET u == task[t].upload_id
         n == task[t].chunk_number
     IN \/ /\ u \in DOMAIN chunked_uploads
           /\ LET m == MarkReceived(chunked_uploads[u], n)
              IN /\ chunked_uploads' = [chunked_uploads EXCEPT ![u] = m]
                 /\ task' = Return(t, "Ok", [a |-> Cardinality(m.received_chunks),
                                             b |-> m.total_chunks], FALSE)
           /\ acked' = [acked EXCEPT ![u] = @ \cup {n}]
           /\ latest' = (<<u, n>> :> task[t].data) @@ latest
           /\ shard_lock' = Unlock(t)
           /\ UNCHANGED nfaults
        \/ /\ CanFault
           /\ nfaults' = nfaults + 1
           /\ task' = Return(t, "Internal", NoResp, TRUE)
           /\ shard_lock' = Unlock(t)
           /\ UNCHANGED << chunked_uploads, acked, latest >>
  /\ UNCHANGED << next_id, chunk_dirs, chunk_files, files, ncalls,
                  sessions, issued, removed, completed, assemblies >>

\* ------------------------------------------- complete_chunked_upload
StartComplete(t) ==
  /\ FirstFree(t)
  /\ ncalls < MaxCalls
  /\ \E u \in MadeUpIds \cup issued :
       /\ task' = Dispatch(t, [IdleTask EXCEPT
                      !.pc = "complete_remove", !.op = "complete",
                      !.upload_id = u,
                      !.late = (u \in MadeUpIds \/ u \in completed),
                      !.full = (u \in DOMAIN chunked_uploads /\ AllReceived(u)),
                      !.overlapped = Overlaps(t, "complete", u)])
  /\ ncalls' = ncalls + 1
  /\ UNCHANGED << chunked_uploads, shard_lock, next_id, chunk_dirs,
                  chunk_files, files, nfaults, hist >>

\* the slip of reading the entry (get) where it should be taken out
RemoveEntryKept(cu, u) == cu

\* DashMap::remove: the entry leaves the map
RemoveEntry(cu, u) == Restrict(cu, DOMAIN cu \ {u})

\* lines 487-511: remove the metadata (or 404), then compare the number of
\* received chunks with total_chunks (or 400)
CompleteRemove(t) ==
  /\ task[t].pc = "complete_remove"
  /\ CanRun(t)
  /\ ShardFree(task[t].upload_id)
  /\ LET u == task[t].upload_id
     IN IF u \notin DOMAIN chunked_uploads
        THEN /\ task' = Return(t, "NotFound", NoResp, FALSE)
             /\ UNCHANGED << chunked_uploads, removed, assemblies >>
        ELSE LET m == chunked_uploads[u]
             IN /\ chunked_uploads' = RemoveEntry(chunked_uploads, u)
                /\ removed' = removed \cup {u}
                /\ IF Cardinality(m.received_chunks) # m.total_chunks
                   THEN /\ task' = [Return(t, "Incomplete",
                                           [a |-> Cardinality(m.received_chunks),
                                            b |-> m.total_chunks], FALSE)
                                      EXCEPT ![t].found = TRUE]
                        /\ UNCHANGED assemblies
                   ELSE /\ task' = [task EXCEPT ![t].pc = "complete_create",
                                                ![t].metadata = m,
                                                ![t].found = TRUE,
                                                ![t].blocked = FALSE]
                        /\ assemblies' = [assemblies EXCEPT ![u] = @ + 1]
  /\ UNCHANGED << shard_lock, next_id, chunk_dirs, chunk_files, files,
                  ncalls, nfaults, acked, latest, sessions, issued, completed >>

\* lines 513-527: File::create(files_dir/<filename>) creates or truncates
CompleteCreate(t) ==
  /\ task[t].pc = "complete_create"
  /\ CanRun(t)
  /\ LET m == task[t].metadata
     IN \/ /\ files' = CreateFile(files, m.filename)
           /\ task' = [task EXCEPT ![t].pos = 0, ![t].chunk_num = 0,
                         ![t].pc = IF m.total_chunks = 0 THEN "complete_sync"
                                                         ELSE "complete_append"]
           /\ UNCHANGED nfaults
        \/ /\ CanFault
           /\ nfaults' = nfaults + 1
           /\ task' = Return(t, "Internal", NoResp, TRUE)
           /\ UNCHANGED files
  /\ UNCHANGED << chunked_uploads, shard_lock, next_id, chunk_dirs,
                  chunk_files, ncalls, hist >>

\* a write through final_file, the handle CompleteCreate opened
PutFinal(name, pos, d) ==
  IF name \in DOMAIN files
  THEN [files EXCEPT ![name] = WriteAt(@, pos, d)]
  ELSE files

\* lines 529-552, one turn of the loop: fs::read(.chunks/<id>/chunk_<chunk_num>),
\* then final_file.write_all(&chunk_data)
CompleteAppend(t) ==
  /\ task[t].pc = "complete_append"
  /\ CanRun(t)
  /\ LET m == task[t].metadata
         k == << task[t].upload_id, task[t].chunk_num >>
     IN \/ /\ k \in DOMAIN chunk_files
           /\ files' = PutFinal(m.filename, task[t].pos, chunk_files[k])
           /\ task' = [task EXCEPT ![t].pos = @ + Len(chunk_files[k]),
                         ![t].chunk_num = @ + 1,
                         ![t].pc = IF task[t].chunk_num + 1 < m.total_chunks
                                   THEN "complete_append" ELSE "complete_sync"]
           /\ UNCHANGED nfaults
        \/ /\ k \notin DOMAIN chunk_files                    \* no such file
           /\ task' = Return(t, "Internal", NoResp, FALSE)
           /\ UNCHANGED << files, nfaults >>
        \/ /\ CanFault                                       \* the read fails
           /\ nfaults' = nfaults + 1
           /\ task' = Return(t, "Internal", NoResp, TRUE)
           /\ UNCHANGED files
        \/ /\ CanFault                       \* the write fails after a proper prefix
           /\ k \in DOMAIN chunk_files
           /\ nfaults' = nfaults + 1
           /\ \E j \in 0..(Len(chunk_files[k]) - 1) :
                files' = PutFinal(m.filename, task[t].pos, Prefix(chunk_files[k], j))
           /\ task' = Return(t, "Internal", NoResp, TRUE)
  /\ UNCHANGED << chunked_uploads, shard_lock, next_id, chunk_dirs,
                  chunk_files, ncalls, hist >>

\* lines 554-562: final_file.sync_all()
CompleteSync(t) ==
  /\ task[t].pc = "complete_sync"
  /\ CanRun(t)
  /\ \/ /\ task' = [task EXCEPT ![t].pc = "complete_cleanup"]
        /\ UNCHANGED nfaults
     \/ /\ CanFault
        /\ nfaults' = nfaults + 1
        /\ task' = Return(t, "Internal", NoResp, TRUE)
  /\ UNCHANGED << chunked_uploads, shard_lock, next_id, chunk_dirs,
                  chunk_files, files, ncalls, hist >>

\* the slip of leaving the chunk artifacts behind
RemoveDirAllKept(cf, u) == cf

\* fs::remove_dir_all(.chunks/<id>): the directory goes with all it holds
RemoveDirAll(cf, u) == Restrict(cf, {k \in DOMAIN cf : k[1] # u})

\* the slip of `?` on the result of remove_dir_all: complete returns the error
TeardownFailedPropagated(t) ==
  [Return(t, "Internal", NoResp, TRUE) EXCEPT ![t].teardown_failed = TRUE]

\* line 566, `let _ =`: the error of remove_dir_all is dropped, complete goes on
TeardownFailed(t) ==
  [task EXCEPT ![t].pc = "complete_stat", ![t].faulted = TRUE,
               ![t].teardown_failed = TRUE]

\* lines 564-566: let _ = remove_dir_all(.chunks/<id>): a failure is dropped
CompleteCleanup(t) ==
  /\ task[t].pc = "complete_cleanup"
  /\ CanRun(t)
  /\ LET u == task[t].upload_id
     IN \/ /\ chunk_dirs' = chunk_dirs \ {u}
           /\ chunk_files' = RemoveDirAll(chunk_files, u)
           /\ task' = [task EXCEPT ![t].pc = "complete_stat"]
           /\ UNCHANGED nfaults
        \/ /\ CanFault
           /\ nfaults' = nfaults + 1
           /\ task' = TeardownFailed(t)
           /\ UNCHANGED << chunk_dirs, chunk_files >>
  /\ UNCHANGED << chunked_uploads, shard_lock, next_id, files, ncalls, hist >>

\* lines 568-576: final_file.metadata().map(len).unwrap_or(0), then 200
CompleteStat(t) ==
  /\ task[t].pc = "complete_stat"
  /\ CanRun(t)
  /\ LET u == task[t].upload_id
         name == task[t].metadata.filename
     IN /\ \/ /\ task' = Return(t, "Ok",
                           [a |-> IF name \in DOMAIN files THEN Len(files[name]) ELSE 0,
                            b |-> 0], FALSE)
              /\ UNCHANGED nfaults
           \/ /\ CanFault
              /\ nfaults' = nfaults + 1
              /\ task' = [Return(t, "Ok", NoResp, TRUE)
                            EXCEPT ![t].stat_failed = TRUE]
        /\ completed' = completed \cup {u}
  /\ UNCHANGED << chunked_uploads, shard_lock, next_id, chunk_dirs,
                  chunk_files, files, ncalls, acked, latest, sessions, issued,
                  removed, assemblies >>

\* a worker thread polls t, whose insert, get_mut or remove finds the shard
\* locked: the thread waits for the lock
Block(t) ==
  /\ task[t].pc \in LockPcs
  /\ ~task[t].blocked
  /\ ~ShardFree(task[t].upload_id)
  /\ Cardinality(OnWorker) < NWorkers
  /\ task' = [task EXCEPT ![t].blocked = TRUE]
  /\ UNCHANGED << chunked_uploads, shard_lock, next_id, chunk_dirs,
                  chunk_files, files, ncalls, nfaults, hist >>

\* the response has been written to the connection: the handler is free again
Respond(t) ==
  /\ task[t].pc = "done"
  /\ task' = [task EXCEPT ![t] = IdleTask]
  /\ UNCHANGED << chunked_uploads, shard_lock, next_id, chunk_dirs,
                  chunk_files, files, ncalls, nfaults, hist >>

\* -------------------------------------------------------- specification
Next ==
  /\ UNCHANGED << calc, san, req >>
  /\ \E t \in Tasks :
    \/ Respond(t)       \/ Block(t)
    \/ StartInit(t)      \/ InitInsert(t)     \/ InitMkdir(t)
    \/ StartChunk(t)     \/ ChunkLookup(t)
    \/ ChunkCreate(t)    \/ ChunkWrite(t)     \/ ChunkSync(t)
    \/ StartComplete(t)  \/ CompleteRemove(t) \/ CompleteCreate(t)
    \/ CompleteAppend(t) \/ CompleteSync(t)
    \/ CompleteCleanup(t) \/ CompleteStat(t)

Spec == Init /\ [][Next]_vars

\* ------------------------------------- total_chunks on 64-bit values
\* (payload.total_size as f64 / payload.chunk_size as f64).ceil() as usize,
\* line 349, for a chunk_size 2^k.  A 64-bit value is the set of the positions
\* of its one bits; an f64 is m * 2^e with m of at most F64_MANTISSA bits.
MaxBit(S) == CHOOSE i \in S : \A j \in S : j <= i

ShiftRight(S, n) == {i - n : i \in {j \in S : j >= n}}

ShiftLeft(S, n) == {i + n : i \in S}

LowBits(S, n) == {i \in S : i < n}

\* S + 1: the lowest zero bit is set, the ones below it are cleared
Increment(S) ==
  LET z == CHOOSE i \in 0..(U64_BITS + 1) :
             i \notin S /\ \A j \in 0..(i - 1) : j \in S
  IN {i \in S : i > z} \cup {z}

\* `x as f64` of a u64: exact below 2^53, else rounded to F64_MANTISSA
\* significant bits, to nearest, ties to even
as_f64(S) ==
  IF S = {} \/ MaxBit(S) < F64_MANTISSA
  THEN [m |-> S, e |-> 0]
  ELSE LET n  == MaxBit(S) - (F64_MANTISSA - 1)
           q  == ShiftRight(S, n)
           r  == LowBits(S, n)
           up == (n - 1) \in r /\ (r # {n - 1} \/ 0 \in q)
       IN [m |-> IF up THEN Increment(q) ELSE q, e |-> n]

\* x / 2^k in f64: exact, the exponent drops by k
div_f64(x, k) == [m |-> x.m, e |-> x.e - k]

\* f64::ceil, as a whole number
ceil(x) ==
  IF x.e >= 0 THEN ShiftLeft(x.m, x.e)
  ELSE IF LowBits(x.m, 0 - x.e) = {} THEN ShiftRight(x.m, 0 - x.e)
       ELSE Increment(ShiftRight(x.m, 0 - x.e))

\* `as usize` of a non-negative whole f64: saturates at usize::MAX
as_usize(S) ==
  IF \E i \in S : i >= U64_BITS THEN 0..(U64_BITS - 1) ELSE S

total_chunks(total_size, k) == as_usize(ceil(div_f64(as_f64(total_size), k)))

\* the integer ceiling of total_size / 2^k
CeilDiv(S, k) ==
  IF LowBits(S, k) = {} THEN ShiftRight(S, k) ELSE Increment(ShiftRight(S, k))

\* total sizes around 1, around 2^53 and around 2^63
WideBits == {0, 1, F64_MANTISSA - 1, F64_MANTISSA, F64_MANTISSA + 1,
             U64_BITS - 1}

WideSizes == SUBSET WideBits

Shifts == 0..MaxShift

InitCalc ==
  /\ InitSys
  /\ san = NoSan
  /\ req = NoReq
  /\ calc \in {[pc |-> "request", total_size |-> S, shift |-> k,
                total_chunks |-> {}] : S \in WideSizes, k \in Shifts}

\* init_chunked_upload, line 349, on the request in calc
ComputeTotalChunks ==
  /\ calc.pc = "request"
  /\ calc' = [calc EXCEPT !.pc = "computed",
                          !.total_chunks = total_chunks(calc.total_size, calc.shift)]
  /\ UNCHANGED << sysvars, san, req >>

NextCalc == ComputeTotalChunks

SpecCalc == InitCalc /\ [][NextCalc]_vars

\* ------------------------------------------- sanitize_filename on its own
\* the characters of a raw name: letters, digits, '-', '_', '.', both
\* separators and one other symbol
NameChars == {"a", "0", "-", "_", ".", "/", "\\", "@"}

Names == UNION { [1..n -> NameChars] : n \in 0..MaxNameLen }

InitSanitize ==
  /\ InitSys
  /\ calc = NoCalc
  /\ req = NoReq
  /\ san \in { [NoSan EXCEPT !.pc = "raw", !.raw = s] : s \in Names }

\* upload_file line 50, delete_file line 189: the client's name is sanitized
SanitizeOnce ==
  /\ san.pc = "raw"
  /\ san' = [san EXCEPT !.pc = "once", !.once = sanitize_filename(san.raw)]
  /\ UNCHANGED << sysvars, calc, req >>

\* delete_file line 189 on a name that list_files gave back: a name that was
\* sanitized when it was stored is sanitized again
SanitizeTwice ==
  /\ san.pc = "once"
  /\ san' = [san EXCEPT !.pc = "twice", !.twice = sanitize_filename(san.once)]
  /\ UNCHANGED << sysvars, calc, req >>

\* init_chunked_upload lines 347-358: the filename the session stores
StoreName ==
  /\ san.pc = "raw"
  /\ san' = [san EXCEPT
               !.pc = "stored",
               !.stored = NewMetadata([filename |-> san.raw, total_size |-> 0,
                                       chunk_size |-> MaxChunkSize]).filename]
  /\ UNCHANGED << sysvars, calc, req >>

NextSanitize == SanitizeOnce \/ SanitizeTwice \/ StoreName

SpecSanitize == InitSanitize /\ [][NextSanitize]_vars

\* ------------------------------------------- the layers of the admin router
Routes == {"upload", "init", "ingest", "complete", "list", "delete",
           "batch_delete", "stats", "health"}

KeyBytes == 1..MaxKeyByte

Keys == UNION { [1..n -> KeyBytes] : n \in 0..MaxKeyLen }

\* the X-API-Key header: absent, present but not visible ASCII (to_str fails),
\* or text
Headers == {NoHeader, [kind |-> "opaque", key |-> <<>>]}
           \cup { [kind |-> "text", key |-> k] : k \in Keys }

\* Config::hash_api_key is the SHA-256 of the key: a fixed function from keys
\* of any length to digests of one size, so that distinct keys can share a
\* digest.  Here a polynomial of the bytes modulo HashMod.
HashBase == 3
HashMod  == 5

RECURSIVE hash_api_key(_)
hash_api_key(key) ==
  IF key = <<>> THEN 0
  ELSE (Head(key) + HashBase * hash_api_key(Tail(key))) % HashMod

\* the slip of checking only that a key was sent
KeyAcceptedIfPresent(header, api_key_hash) == header.kind = "text"

\* validate_api_key lines 18-34: the header is there, is text, and its hash
\* is the configured one
KeyAccepted(header, api_key_hash) ==
  /\ header.kind = "text"
  /\ hash_api_key(header.key) = api_key_hash

Answer(status) == [req EXCEPT !.pc = "done", !.status = status]

\* a request arrives at the outermost layer (TraceLayer only logs)
InitAuth ==
  /\ InitSys
  /\ calc = NoCalc
  /\ san = NoSan
  /\ req \in { [NoReq EXCEPT !.pc = "cors", !.route = r, !.header = h,
                             !.api_key_hash = hash_api_key(k),
                             !.preflight = p, !.over_quota = q,
                             !.too_large = l] :
               r \in Routes, h \in Headers, k \in Keys,
               p \in BOOLEAN, q \in BOOLEAN, l \in BOOLEAN }

\* server.rs lines 62-69 and 85, CorsLayer: an OPTIONS request is answered by the layer
Cors ==
  /\ req.pc = "cors"
  /\ req' = IF req.preflight THEN Answer(200) ELSE [req EXCEPT !.pc = "governor"]
  /\ UNCHANGED << sysvars, calc, san >>

\* server.rs lines 53-59 and 84, GovernorLayer: 429 when the peer is over quota
Governor ==
  /\ req.pc = "governor"
  /\ req' = IF req.over_quota THEN Answer(429)
            ELSE [req EXCEPT !.pc = "body_limit"]
  /\ UNCHANGED << sysvars, calc, san >>

\* server.rs line 83, RequestBodyLimitLayer: 413 when Content-Length is over
\* max_upload_size
BodyLimit ==
  /\ req.pc = "body_limit"
  /\ req' = IF req.too_large THEN Answer(413)
            ELSE [req EXCEPT !.pc = "extension"]
  /\ UNCHANGED << sysvars, calc, san >>

\* server.rs line 82, Extension: the configured hash is put into the request
AddExtension ==
  /\ req.pc = "extension"
  /\ req' = [req EXCEPT !.pc = "validate", !.extension = {req.api_key_hash}]
  /\ UNCHANGED << sysvars, calc, san >>

\* middleware.rs lines 9-39
validate_api_key ==
  /\ req.pc = "validate"
  /\ req' = IF req.extension = {} THEN Answer(500)
            ELSE IF \E h \in req.extension : KeyAccepted(req.header, h)
                 THEN [req EXCEPT !.pc = "handler"]
                 ELSE Answer(401)
  /\ UNCHANGED << sysvars, calc, san >>

\* middleware.rs line 38, next.run(req): the handler of the route gets the
\* request
RunHandler ==
  /\ req.pc = "handler"
  /\ req' = [req EXCEPT !.pc = "handed"]
  /\ \E t \in Tasks :
       /\ FirstFree(t)
       /\ task' = [task EXCEPT ![t] = [IdleTask EXCEPT !.pc = "accepted",
                                                       !.op = req.route]]
  /\ ncalls' = ncalls + 1
  /\ UNCHANGED << chunked_uploads, shard_lock, next_id, chunk_dirs,
                  chunk_files, files, nfaults, hist, calc, san >>

NextAuth ==
  \/ Cors \/ Governor \/ BodyLimit \/ AddExtension \/ validate_api_key
  \/ RunHandler

SpecAuth == InitAuth /\ [][NextAuth]_vars

\* ------------------------- upload_file, delete_file and staged sessions
Separators == {"/", "\\"}

\* the components of a path: the runs between separators
RECURSIVE Components(_)
Components(s) ==
  IF \A i \in 1..Len(s) : s[i] \notin Separators THEN << s >>
  ELSE LET i == CHOOSE j \in 1..Len(s) :
                  /\ s[j] \in Separators
                  /\ \A k \in 1..(j - 1) : s[k] \notin Separators
       IN << SubSeq(s, 1, i - 1) >> \o Components(SubSeq(s, i + 1, Len(s)))

StagedIds == 1..MaxStaged

\* lines 363, 434, 527-530: the paths of the staging tree, relative to files_dir
StagingRoot     == << ".", "chunks" >>
ChunkDir(u)     == StagingRoot \o << "/", ToString(u) >>
ChunkPath(u, n) == ChunkDir(u) \o << "/", "chunk_", ToString(n) >>

NoNode == [kind |-> "other", name |-> <<>>, u |-> BogusId, n |-> 0]

\* what files_dir.join(path) names: files_dir itself, a file right in it,
\* the staging root, the staging directory of an id, a chunk artifact,
\* something outside files_dir, or some other path below it
Resolve(path) ==
  LET cs == SelectSeq(Components(path), LAMBDA c : c \notin {<<>>, <<".">>})
  IN IF \/ (path # <<>> /\ Head(path) \in Separators)
        \/ \E i \in 1..Len(cs) : cs[i] = <<".", ".">>
     THEN [NoNode EXCEPT !.kind = "outside"]
     ELSE IF cs = <<>> THEN [NoNode EXCEPT !.kind = "base"]
     ELSE IF cs = << StagingRoot >> THEN [NoNode EXCEPT !.kind = "staging_root"]
     ELSE IF Len(cs) = 1 THEN [NoNode EXCEPT !.kind = "file", !.name = cs[1]]
     ELSE IF \E u \in StagedIds : path = ChunkDir(u)
          THEN [NoNode EXCEPT !.kind = "staging_dir",
                              !.u = CHOOSE u \in StagedIds : path = ChunkDir(u)]
     ELSE IF \E u \in StagedIds, n \in Indices : path = ChunkPath(u, n)
          THEN LET k == CHOOSE k \in StagedIds \X Indices :
                          path = ChunkPath(k[1], k[2])
               IN [NoNode EXCEPT !.kind = "chunk", !.u = k[1], !.n = k[2]]
     ELSE NoNode

\* Path::exists
Exists(node) ==
  CASE node.kind = "file"         -> node.name \in DOMAIN files
    [] node.kind = "chunk"        -> << node.u, node.n >> \in DOMAIN chunk_files
    [] node.kind = "staging_dir"  -> node.u \in chunk_dirs
    [] node.kind = "staging_root" -> issued # {}
    [] node.kind = "base"         -> TRUE
    [] OTHER                      -> FALSE

\* the names a client sends to upload_file and delete_file: a plain one and
\* the path of a chunk artifact
AttackNames == { <<"a">>, ChunkPath(1, 0) }

\* the slip of joining the client's name as it came
FilePathRaw(raw) == raw

\* lines 50-51, 189-190: files_dir.join(sanitize_filename(filename)), as a
\* path relative to files_dir
FilePath(raw) == sanitize_filename(raw)

\* what init gets for the staged sessions: distinct raw names that sanitize
\* to one name, and sizes that make for more than one chunk
StagedInputs ==
  { [filename |-> name, total_size |-> MaxTotalSize, chunk_size |-> cs] :
      name \in RawNames, cs \in 1..MaxChunkSize }

StagedPlans == UNION { [1..k -> StagedInputs] : k \in 1..MaxStaged }

\* every chunk of staged session u holds u bytes of value u
StagedBody(u) == [i \in 1..u |-> u]

\* the state after init and the ingest of every chunk, for each session of a
\* plan, with all responses delivered
InitFiles ==
  /\ calc = NoCalc
  /\ san = NoSan
  /\ req = NoReq
  /\ \E plan \in StagedPlans :
       LET ids  == DOMAIN plan
           m(u) == NewMetadata(plan[u])
           all(u) == 0 .. (m(u).total_chunks - 1)
           cf   == [k \in { k \in ids \X Indices : k[2] \in all(k[1]) }
                      |-> StagedBody(k[1])]
       IN /\ chunked_uploads =
               [u \in ids |-> [m(u) EXCEPT !.received_chunks = all(u)]]
          /\ sessions = [u \in ids |-> m(u)]
          /\ next_id = Len(plan)
          /\ chunk_dirs = ids
          /\ chunk_files = cf
          /\ latest = cf
          /\ issued = ids
          /\ acked = [u \in ClientIds \cup StagedIds |->
                        IF u \in ids THEN all(u) ELSE {}]
  /\ shard_lock = [s \in Shards |-> NoTask]
  /\ files = << >>
  /\ task = [t \in Tasks |-> IdleTask]
  /\ ncalls = MaxCalls - MaxFileCalls
  /\ nfaults = 0
  /\ removed = {}
  /\ completed = {}
  /\ assemblies = [u \in ClientIds \cup StagedIds |-> 0]

\* upload_file lines 28-51: the field, its filename, the path
StartUpload(t) ==
  /\ FirstFree(t)
  /\ ncalls < MaxCalls
  /\ \E raw \in AttackNames, body \in Payloads :
       task' = Dispatch(t, [IdleTask EXCEPT
                      !.pc = "upload_create", !.op = "upload",
                      !.payload = [NoPayload EXCEPT !.filename = raw],
                      !.file_path = FilePath(raw),
                      !.data = body])
  /\ ncalls' = ncalls + 1
  /\ UNCHANGED << chunked_uploads, shard_lock, next_id, chunk_dirs,
                  chunk_files, files, nfaults, hist >>

\* lines 55-77: the bytes are read, then File::create(file_path)
UploadCreate(t) ==
  /\ task[t].pc = "upload_create"
  /\ CanRun(t)
  /\ LET node == Resolve(task[t].file_path)
     IN \/ /\ node.kind = "file"
           /\ files' = CreateFile(files, node.name)
           /\ task' = [task EXCEPT ![t].pc = "upload_write"]
           /\ UNCHANGED << chunk_files, nfaults >>
        \/ /\ node.kind = "chunk" /\ node.u \in chunk_dirs
           /\ chunk_files' = CreateFile(chunk_files, << node.u, node.n >>)
           /\ task' = [task EXCEPT ![t].pc = "upload_write"]
           /\ UNCHANGED << files, nfaults >>
        \/ /\ ~ \/ node.kind = "file"          \* a directory, or no parent
                \/ (node.kind = "chunk" /\ node.u \in chunk_dirs)
           /\ task' = Return(t, "Internal", NoResp, FALSE)
           /\ UNCHANGED << files, chunk_files, nfaults >>
        \/ /\ CanFault
           /\ nfaults' = nfaults + 1
           /\ task' = Return(t, "Internal", NoResp, TRUE)
           /\ UNCHANGED << files, chunk_files >>
  /\ UNCHANGED << chunked_uploads, shard_lock, next_id, chunk_dirs, ncalls,
                  hist >>

\* a write through the handle UploadCreate opened
PutFile(node, d) ==
  IF node.kind = "file" THEN << PutFinal(node.name, 0, d), chunk_files >>
  ELSE << files, PutChunk(<< node.u, node.n >>, 0, d) >>

\* lines 79-87: write_all; a failing write leaves a proper prefix behind
UploadWrite(t) ==
  /\ task[t].pc = "upload_write"
  /\ CanRun(t)
  /\ LET node == Resolve(task[t].file_path)
         d    == task[t].data
     IN \/ /\ files' = PutFile(node, d)[1]
           /\ chunk_files' = PutFile(node, d)[2]
           /\ task' = [task EXCEPT ![t].pc = "upload_sync"]
           /\ UNCHANGED nfaults
        \/ /\ CanFault
           /\ nfaults' = nfaults + 1
           /\ \E j \in 0..(Len(d) - 1) :
                /\ files' = PutFile(node, Prefix(d, j))[1]
                /\ chunk_files' = PutFile(node, Prefix(d, j))[2]
           /\ task' = Return(t, "Internal", NoResp, TRUE)
  /\ UNCHANGED << chunked_uploads, shard_lock, next_id, chunk_dirs, ncalls,
                  hist >>

\* lines 89-105: sync_all, then the response with the size
UploadSync(t) ==
  /\ task[t].pc = "upload_sync"
  /\ CanRun(t)
  /\ \/ /\ task' = Return(t, "Ok", [a |-> Len(task[t].data), b |-> 0], FALSE)
        /\ UNCHANGED nfaults
     \/ /\ CanFault
        /\ nfaults' = nfaults + 1
        /\ task' = Return(t, "Internal", NoResp, TRUE)
  /\ UNCHANGED << chunked_uploads, shard_lock, next_id, chunk_dirs,
                  chunk_files, files, ncalls, hist >>

\* delete_file lines 182-190: the name off the URL, the path
StartDelete(t) ==
  /\ FirstFree(t)
  /\ ncalls < MaxCalls
  /\ \E raw \in AttackNames :
       task' = Dispatch(t, [IdleTask EXCEPT
                      !.pc = "delete_check", !.op = "delete",
                      !.payload = [NoPayload EXCEPT !.filename = raw],
                      !.file_path = FilePath(raw)])
  /\ ncalls' = ncalls + 1
  /\ UNCHANGED << chunked_uploads, shard_lock, next_id, chunk_dirs,
                  chunk_files, files, nfaults, hist >>

\* lines 195-203: if !file_path.exists() the answer is 404
DeleteCheck(t) ==
  /\ task[t].pc = "delete_check"
  /\ CanRun(t)
  /\ task' = IF Exists(Resolve(task[t].file_path))
             THEN [task EXCEPT ![t].pc = "delete_remove", ![t].found = TRUE]
             ELSE Return(t, "NotFound", NoResp, FALSE)
  /\ UNCHANGED << chunked_uploads, shard_lock, next_id, chunk_dirs,
                  chunk_files, files, ncalls, nfaults, hist >>

\* lines 206-221: fs::remove_file(file_path); an error of it is a 500
DeleteRemove(t) ==
  /\ task[t].pc = "delete_remove"
  /\ CanRun(t)
  /\ LET node == Resolve(task[t].file_path)
     IN \/ /\ node.kind = "file" /\ Exists(node)
           /\ files' = Restrict(files, DOMAIN files \ {node.name})
           /\ task' = Return(t, "Ok", NoResp, FALSE)
           /\ UNCHANGED << chunk_files, nfaults >>
        \/ /\ node.kind = "chunk" /\ Exists(node)
           /\ chunk_files' = Restrict(chunk_files,
                                      DOMAIN chunk_files \ {<< node.u, node.n >>})
           /\ task' = Return(t, "Ok", NoResp, FALSE)
           /\ UNCHANGED << files, nfaults >>
        \/ /\ ~(node.kind \in {"file", "chunk"} /\ Exists(node))
           /\ task' = Return(t, "Internal", NoResp, FALSE)   \* gone, or a directory
           /\ UNCHANGED << files, chunk_files, nfaults >>
        \/ /\ CanFault
           /\ nfaults' = nfaults + 1
           /\ task' = Return(t, "Internal", NoResp, TRUE)
           /\ UNCHANGED << files, chunk_files >>
  /\ UNCHANGED << chunked_uploads, shard_lock, next_id, chunk_dirs, ncalls,
                  hist >>

NextFiles ==
  /\ UNCHANGED << calc, san, req >>
  /\ \E t \in Tasks :
    \/ Respond(t)
    \/ StartUpload(t)    \/ UploadCreate(t)   \/ UploadWrite(t)
    \/ UploadSync(t)
    \/ StartDelete(t)    \/ DeleteCheck(t)    \/ DeleteRemove(t)
    \/ StartChunk(t)     \/ ChunkLookup(t)
    \/ ChunkCreate(t)    \/ ChunkWrite(t)     \/ ChunkSync(t)
    \/ StartComplete(t)  \/ CompleteRemove(t) \/ CompleteCreate(t)
    \/ CompleteAppend(t) \/ CompleteSync(t)
    \/ CompleteCleanup(t) \/ CompleteStat(t)

SpecFiles == InitFiles /\ [][NextFiles]_vars

\* ================================================================ claims
AssemblyPcs == {"complete_create", "complete_append", "complete_sync",
                "complete_cleanup", "complete_stat"}
WritePcs    == {"chunk_create", "chunk_write", "chunk_sync"}

Done(t, op) == task[t].pc = "done" /\ task[t].op = op

\* C1: two complete calls, both dispatched on an upload (of a nonzero
\* chunk_size and at least one chunk) that was in the registry with its chunks 0..total_chunks-1 all
\* acknowledged, and neither hit by an I/O fault: exactly one returns success,
\* the other NotFound, and assembly ran once.
C1_ExactlyOneCompleteSucceeds ==
  \A t1, t2 \in Tasks :
    ( /\ t1 # t2
      /\ Done(t1, "complete") /\ Done(t2, "complete")
      /\ task[t1].upload_id = task[t2].upload_id
      /\ task[t1].full /\ task[t2].full
      /\ sessions[task[t1].upload_id].chunk_size > 0
      /\ sessions[task[t1].upload_id].total_chunks >= 1
      /\ ~task[t1].faulted /\ ~task[t2].faulted )
    => /\ {task[t1].status, task[t2].status} = {"Ok", "NotFound"}
       /\ assemblies[task[t1].upload_id] = 1

\* C2: a complete call that returns Incomplete has not removed the session:
\* the upload is still in the registry when the call returns.
C2_IncompleteKeepsSession ==
  \A t \in Tasks :
    (Done(t, "complete") /\ task[t].status = "Incomplete")
    => task[t].upload_id \in DOMAIN chunked_uploads

\* an ingest past its lookup has its session in the registry
C3_WritingIngestHasSession ==
  \A t \in Tasks :
    (task[t].op = "ingest" /\ task[t].pc \in WritePcs)
    => /\ task[t].upload_id \in DOMAIN chunked_uploads
       /\ task[t].upload_id \notin removed

\* a step leaves a removed session out of the registry, acknowledges no index
\* for it and creates or rewrites none of its chunk artifacts
C3_NothingAfterRemoval ==
  \A u \in removed :
    /\ u \notin DOMAIN chunked_uploads'
    /\ acked'[u] = acked[u]
    /\ \A k \in DOMAIN chunk_files' :
         k[1] = u => (k \in DOMAIN chunk_files /\ chunk_files'[k] = chunk_files[k])

\* C3: an ingest that got past its lookup works on a session that is still in
\* the registry (complete has not removed it); every other ingest returned
\* NotFound at the lookup.  Once complete has removed a session no index is
\* added for it and no chunk artifact of it is written.
C3_IngestSeesSessionOrNotFound ==
  []C3_WritingIngestHasSession /\ [][C3_NothingAfterRemoval]_vars

\* a state of the race: complete removed the session while an ingest on the
\* same id was in flight, and that ingest has returned NotFound
C3_Witness ==
  \E t \in Tasks :
    /\ Done(t, "ingest") /\ task[t].overlapped
    /\ task[t].status = "NotFound"
    /\ task[t].upload_id \in removed

\* C4: every index whose ingest returned success is in received_chunks, so
\* when the ingests of exactly the indices 0..total_chunks-1 have all returned
\* success the set has exactly total_chunks elements.
C4_NoLostUpdate ==
  \A u \in DOMAIN chunked_uploads :
    LET m == chunked_uploads[u]
    IN /\ acked[u] \subseteq m.received_chunks
       /\ ( /\ m.total_chunks <= MaxIndex + 1
            /\ acked[u] = 0 .. (m.total_chunks - 1) )
          => Cardinality(m.received_chunks) = m.total_chunks

\* two ingests of the two indices of a two-chunk upload were in flight
\* together and both have returned success
C4_Witness ==
  \E t1, t2 \in Tasks :
    /\ t1 # t2
    /\ Done(t1, "ingest") /\ Done(t2, "ingest")
    /\ task[t1].status = "Ok" /\ task[t2].status = "Ok"
    /\ task[t1].overlapped /\ task[t2].overlapped
    /\ task[t1].upload_id = task[t2].upload_id
    /\ task[t1].chunk_number # task[t2].chunk_number
    /\ task[t1].upload_id \in DOMAIN chunked_uploads
    /\ chunked_uploads[task[t1].upload_id].total_chunks = 2
    /\ Cardinality(chunked_uploads[task[t1].upload_id].received_chunks) = 2

\* C5: complete starts assembly exactly when every index 0..total_chunks-1
\* has been ingested, whatever else was ingested: a call in its assembly
\* phase has them all, a call that returned Incomplete lacked one (uploads of
\* a nonzero chunk_size).
C5_AssemblyIffAllReceived ==
  \A t \in Tasks :
    (task[t].op = "complete" /\ task[t].upload_id \in DOMAIN sessions
       /\ sessions[task[t].upload_id].chunk_size > 0)
    => /\ task[t].pc \in AssemblyPcs => AllReceived(task[t].upload_id)
       /\ (task[t].pc = "done" /\ task[t].status = "Incomplete")
            => ~AllReceived(task[t].upload_id)

\* the concatenation of the last successfully ingested bodies of 0..n-1
RECURSIVE LatestConcat(_, _)
LatestConcat(u, n) ==
  IF n = 0 THEN <<>>
  ELSE LatestConcat(u, n - 1) \o
       (IF <<u, n - 1>> \in DOMAIN latest THEN latest[<<u, n - 1>>] ELSE <<>>)

\* C6: when complete returns success (the call itself hit by no I/O fault)
\* the file under the session's filename is the concatenation, in index
\* order, of the bodies last ingested for 0..total_chunks-1, and the size in
\* the response is its length.
C6_FinalIsConcatenation ==
  \A t \in Tasks :
    (Done(t, "complete") /\ task[t].status = "Ok" /\ ~task[t].faulted)
    => LET u    == task[t].upload_id
           name == sessions[u].filename
           want == LatestConcat(u, sessions[u].total_chunks)
       IN /\ name \in DOMAIN files
          /\ files[name] = want
          /\ task[t].resp.a = Len(want)

\* C7: an ingest or complete dispatched on an id that a complete call has
\* already completed, or that init never returned, returns NotFound; such an
\* id is never in the registry.
C7_CompletedIdStaysNotFound ==
  /\ \A t \in Tasks :
       (task[t].pc = "done" /\ task[t].op \in {"ingest", "complete"} /\ task[t].late)
       => task[t].status = "NotFound"
  /\ \A u \in completed \cup MadeUpIds : u \notin DOMAIN chunked_uploads

\* a complete dispatched after the id was completed has returned NotFound
C7_Witness ==
  \E t \in Tasks :
    /\ Done(t, "complete") /\ task[t].late
    /\ task[t].upload_id \in completed
    /\ task[t].status = "NotFound"

\* C8: received_chunks of every session is a subset of 0..total_chunks-1.
C8_ReceivedWithinRange ==
  \A u \in DOMAIN chunked_uploads :
    \A n \in chunked_uploads[u].received_chunks :
      n < chunked_uploads[u].total_chunks

\* C9: init with chunk_size = 0 is rejected: it never responds success and
\* leaves neither a registry entry nor a staging directory.
C9_ZeroChunkSizeRejected ==
  \A t \in Tasks :
    (task[t].op = "init" /\ task[t].payload.chunk_size = 0)
    => /\ task[t].upload_id \notin DOMAIN chunked_uploads
       /\ task[t].upload_id \notin chunk_dirs
       /\ task[t].pc = "done" => task[t].status # "Ok"

\* C10: when init returns its error because the staging directory could not
\* be created, the registry holds no session for the id it generated.
C10_FailedInitLeavesNoSession ==
  \A t \in Tasks :
    (Done(t, "init") /\ task[t].status = "Internal")
    => task[t].upload_id \notin DOMAIN chunked_uploads

\* C17: for every total_size and every chunk_size > 0 (here 2^k) the
\* total_chunks that init computes and returns is the integer ceiling of
\* total_size / chunk_size.
C17_TotalChunksIsCeiling ==
  calc.pc = "computed"
  => calc.total_chunks = CeilDiv(calc.total_size, calc.shift)

\* C11: a complete call that fails with an I/O failure during assembly leaves
\* no partial artifact under the target filename: the file is absent (as it
\* was before the call) or the full concatenation of the chunks.
C11_NoPartialFinalArtifact ==
  \A t \in Tasks :
    (Done(t, "complete") /\ task[t].status = "Internal" /\ task[t].faulted)
    => LET u    == task[t].upload_id
           name == sessions[u].filename
       IN \/ name \notin DOMAIN files
          \/ files[name] = LatestConcat(u, sessions[u].total_chunks)

\* C12: after a complete call on a fully ingested upload (of a nonzero
\* chunk_size) failed with an I/O
\* failure during assembly (Internal), a complete call on the same id made
\* afterwards, with the fault gone, succeeds.
C12_FailedCompleteCanBeRetried ==
  \A t1, t2 \in Tasks :
    ( /\ t1 # t2
      /\ Done(t1, "complete") /\ Done(t2, "complete")
      /\ task[t1].upload_id = task[t2].upload_id
      /\ task[t1].status = "Internal" /\ task[t1].faulted /\ task[t1].full
      /\ sessions[task[t1].upload_id].chunk_size > 0
      /\ ~task[t1].overlapped /\ ~task[t2].overlapped /\ ~task[t2].faulted )
    => task[t2].status = "Ok"

\* a step that adds an index to received_chunks is the last step of an ingest
\* of that index whose bytes are in the chunk artifact and whose flush is done
C13_MarkFollowsWrite ==
  \A u \in DOMAIN chunked_uploads \cap DOMAIN chunked_uploads' :
    \A n \in chunked_uploads'[u].received_chunks
               \ chunked_uploads[u].received_chunks :
      \E t \in Tasks :
        /\ task[t].op = "ingest" /\ task[t].pc = "chunk_sync"
        /\ task[t].upload_id = u /\ task[t].chunk_number = n
        /\ <<u, n>> \in DOMAIN chunk_files
        /\ chunk_files[<<u, n>>] = task[t].data
        /\ task'[t].pc = "done" /\ task'[t].status = "Ok"

\* a step by which an ingest returns anything but success leaves the registry
\* as it was, and an ingest hit by an I/O failure returns Internal
C13_FailedIngestMarksNothing ==
  \A t \in Tasks :
    (task[t].op = "ingest" /\ task[t].pc # "done" /\ task'[t].pc = "done"
       /\ task'[t].status # "Ok")
    => /\ chunked_uploads' = chunked_uploads
       /\ task'[t].faulted => task'[t].status = "Internal"

\* C13: write-before-mark.  An index enters received_chunks only after the
\* write and the flush of that ingest's bytes succeeded; an ingest whose
\* create, write or flush fails returns Internal and adds no index.
C13_WriteBeforeMark ==
  [][C13_MarkFollowsWrite /\ C13_FailedIngestMarksNothing]_vars

\* an ingest created its chunk artifact, failed in the write or the flush and
\* returned Internal: its index is not in received_chunks
C13_Witness ==
  \E t \in Tasks :
    /\ Done(t, "ingest") /\ task[t].status = "Internal" /\ task[t].faulted
    /\ task[t].upload_id \in DOMAIN chunked_uploads
    /\ << task[t].upload_id, task[t].chunk_number >> \in DOMAIN chunk_files
    /\ task[t].chunk_number
         \notin chunked_uploads[task[t].upload_id].received_chunks

\* the step by which an ingest of an index that is already in received_chunks
\* returns success
C14_SecondIngestStep ==
  \A t \in Tasks :
    LET u == task[t].upload_id
        n == task[t].chunk_number
    IN ( /\ task[t].op = "ingest" /\ task[t].pc = "chunk_sync"
         /\ task'[t].pc = "done" /\ task'[t].status = "Ok"
         /\ n \in chunked_uploads[u].received_chunks )
       => /\ Cardinality(chunked_uploads'[u].received_chunks)
               = Cardinality(chunked_uploads[u].received_chunks)
          /\ task'[t].resp.a = Cardinality(chunked_uploads[u].received_chunks)
          /\ chunk_files'[<<u, n>>] = task[t].data

\* C14: a second successful ingest of the same (id, index) leaves the size of
\* received_chunks as it was and the chunk artifact equal to the bytes of the
\* second ingest.
C14_LastWriteWins == [][C14_SecondIngestStep]_vars

\* two ingests of the same (id, index) have both returned success; the set
\* has one element and the artifact holds the bytes of the later one
C14_Witness ==
  \E t1, t2 \in Tasks :
    /\ t1 # t2
    /\ Done(t1, "ingest") /\ Done(t2, "ingest")
    /\ task[t1].status = "Ok" /\ task[t2].status = "Ok"
    /\ task[t1].upload_id = task[t2].upload_id
    /\ task[t1].chunk_number = task[t2].chunk_number
    /\ task[t1].upload_id \in DOMAIN chunked_uploads
    /\ chunked_uploads[task[t1].upload_id].received_chunks
         = {task[t1].chunk_number}
    /\ chunk_files[<< task[t1].upload_id, task[t1].chunk_number >>]
         = latest[<< task[t1].upload_id, task[t1].chunk_number >>]

\* C15: a registry operation (insert, get_mut, remove) is never kept waiting
\* by a handler that works on a different upload id.
C15_DifferentIdsNeverBlock ==
  \A t \in Tasks :
    (task[t].pc \in LockPcs /\ ~ShardFree(task[t].upload_id))
    => task[shard_lock[ShardOf(task[t].upload_id)]].upload_id
         = task[t].upload_id

\* t can take its next step: it can be polled, and the lock it needs is free
CanStep(t) ==
  /\ Running(t)
  /\ CanRun(t)
  /\ task[t].pc \in LockPcs => ShardFree(task[t].upload_id)

\* C16: no call is stuck for ever: while a call has not returned, some call
\* that has not returned can take a step (in a state without one, no I/O
\* completion and no later request changes anything for the calls in it).
C16_NoCallStuckForever ==
  (\E t \in Tasks : Running(t)) => \E t \in Tasks : CanStep(t)

\* C18: when complete returns success and the teardown did not fail, the id
\* is not in the registry and its staging directory and chunk artifacts are
\* gone.
C18_SuccessLeavesNothingStaged ==
  \A t \in Tasks :
    (Done(t, "complete") /\ task[t].status = "Ok" /\ ~task[t].teardown_failed)
    => LET u == task[t].upload_id
       IN /\ u \notin DOMAIN chunked_uploads
          /\ u \notin chunk_dirs
          /\ \A k \in DOMAIN chunk_files : k[1] # u

\* complete returned success on an upload that had chunks staged
C18_Witness ==
  \E t \in Tasks :
    /\ Done(t, "complete") /\ task[t].status = "Ok" /\ ~task[t].teardown_failed
    /\ task[t].upload_id \in removed
    /\ acked[task[t].upload_id] # {}
    /\ task[t].upload_id \notin chunk_dirs

\* C19: ingest and complete return NotFound exactly when the id was not in
\* the registry at the lookup; complete on an upload (of a nonzero
\* chunk_size) that lacks one of the
\* indices 0..total_chunks-1 returns Incomplete with (received, total), and
\* never otherwise; Internal is returned for I/O failures only.
C19_OutcomesDistinguished ==
  \A t \in Tasks :
    (task[t].pc = "done" /\ task[t].op \in {"ingest", "complete"})
    => LET u == task[t].upload_id
       IN /\ task[t].status = "NotFound" <=> ~task[t].found
          /\ task[t].faulted /\ ~task[t].teardown_failed /\ ~task[t].stat_failed
               => task[t].status = "Internal"
          /\ ( /\ task[t].op = "complete" /\ task[t].found /\ ~task[t].faulted
               /\ sessions[u].chunk_size > 0 )
               => /\ task[t].status = "Incomplete" <=> ~AllReceived(u)
                  /\ task[t].status = "Incomplete"
                       => /\ task[t].resp.a = Cardinality(acked[u])
                          /\ task[t].resp.b = sessions[u].total_chunks

\* C20: when assembly succeeded and only the teardown of the staging
\* directory fails, complete goes on and returns success with the size of the
\* final file.
C20_TeardownFailureSwallowed ==
  \A t \in Tasks :
    (task[t].op = "complete" /\ task[t].teardown_failed)
    => /\ task[t].pc \in {"complete_stat", "done"}
       /\ (task[t].pc = "done" /\ ~task[t].stat_failed)
            => LET name == sessions[task[t].upload_id].filename
               IN /\ task[t].status = "Ok"
                  /\ name \in DOMAIN files
                  /\ task[t].resp.a = Len(files[name])

\* the teardown failed, the staging directory is still there, and complete
\* has returned success with the size of a non-empty final file
C20_Witness ==
  \E t \in Tasks :
    /\ Done(t, "complete") /\ task[t].teardown_failed
    /\ task[t].status = "Ok"
    /\ task[t].upload_id \in chunk_dirs
    /\ task[t].resp.a > 0

\* the step by which an ingest leaves its lookup with the id not in the
\* registry: it returns NotFound, and registry and disk stay as they were
C21_LookupMissStep ==
  \A t \in Tasks :
    ( /\ task[t].op = "ingest" /\ task[t].pc = "chunk_lookup"
      /\ task'[t].pc # "chunk_lookup"
      /\ task[t].upload_id \notin DOMAIN chunked_uploads )
    => /\ task'[t].pc = "done" /\ task'[t].status = "NotFound"
       /\ UNCHANGED << chunked_uploads, chunk_dirs, chunk_files, files >>

\* an ingest that works on the disk found its id in the registry
C21_WriterFoundItsId ==
  \A t \in Tasks :
    (task[t].op = "ingest" /\ task[t].pc \in WritePcs)
    => task[t].upload_id \in DOMAIN sessions

\* C21: an ingest on an upload id that is not in the registry returns
\* NotFound and has no effect: no chunk artifact is written, no registry entry
\* is created and every session stays as it is.
C21_UnknownIdIngestHasNoEffect ==
  []C21_WriterFoundItsId /\ [][C21_LookupMissStep]_vars

\* an ingest on a made-up id has returned NotFound while a session exists
C21_Witness ==
  \E t \in Tasks :
    /\ Done(t, "ingest") /\ task[t].status = "NotFound"
    /\ task[t].upload_id \in MadeUpIds
    /\ chunked_uploads # << >>

\* a step keeps every session that stays in the registry as it was, but for
\* indices added to received_chunks
C24_SessionStep ==
  \A u \in DOMAIN chunked_uploads \cap DOMAIN chunked_uploads' :
    /\ chunked_uploads'[u].filename = chunked_uploads[u].filename
    /\ chunked_uploads'[u].total_size = chunked_uploads[u].total_size
    /\ chunked_uploads'[u].chunk_size = chunked_uploads[u].chunk_size
    /\ chunked_uploads'[u].total_chunks = chunked_uploads[u].total_chunks
    /\ chunked_uploads[u].received_chunks
         \subseteq chunked_uploads'[u].received_chunks

\* C24: while a session is in the registry its filename, total_size,
\* chunk_size and total_chunks never change and its received_chunks only
\* grows.
C24_SessionImmutableSetGrows == [][C24_SessionStep]_vars

\* a session that went through an ingest of an index it already had and an
\* ingest of a new one
C24_Witness ==
  \E u \in DOMAIN chunked_uploads :
    /\ Cardinality(chunked_uploads[u].received_chunks) = 2
    /\ \E t \in Tasks :
         /\ Done(t, "ingest") /\ task[t].status = "Ok"
         /\ task[t].upload_id = u

\* C27: for every session and every index in its received_chunks (no ingest
\* of that index being under way; sessions with a positive chunk size and
\* indices within range, so that no other defect is involved) the chunk
\* artifact exists and holds the
\* bytes of the last ingest of the index that returned success; a failed
\* re-ingest leaves them intact.
C27_ReceivedChunkIntact ==
  \A u \in DOMAIN chunked_uploads :
    \A n \in chunked_uploads[u].received_chunks :
      ( /\ chunked_uploads[u].chunk_size > 0
        /\ n < chunked_uploads[u].total_chunks
        /\ \A t \in Tasks : ~( /\ task[t].op = "ingest" /\ task[t].pc \in WritePcs
                           /\ task[t].upload_id = u
                           /\ task[t].chunk_number = n ) )
      => /\ <<u, n>> \in DOMAIN chunk_files
         /\ chunk_files[<<u, n>>] = latest[<<u, n>>]

\* C29: while no init and no complete call is under way (no I/O operation
\* having failed and every session having a positive chunk size), an id has a staging directory exactly when it has a registry
\* entry.
C29_StagingIffSession ==
  ( /\ \A t \in Tasks : Running(t) => task[t].op \notin {"init", "complete"}
    /\ \A u \in DOMAIN sessions : sessions[u].chunk_size > 0
    /\ nfaults = 0 )
  => \A u \in UploadIds : u \in chunk_dirs <=> u \in DOMAIN chunked_uploads

\* ---- path resolution, for the claims about names
\* resolving the components from depth d below the base goes above the base
RECURSIVE Climbs(_, _)
Climbs(cs, d) ==
  IF cs = <<>> THEN FALSE
  ELSE IF Head(cs) \in {<<>>, <<".">>} THEN Climbs(Tail(cs), d)
  ELSE IF Head(cs) = <<".", ".">>
       THEN d = 0 \/ Climbs(Tail(cs), d - 1)
       ELSE Climbs(Tail(cs), d + 1)

\* base.join(name) resolves outside base: name is absolute (join then drops
\* the base) or climbs above it
EscapesBase(name) ==
  \/ (name # <<>> /\ Head(name) \in Separators)
  \/ Climbs(Components(name), 0)

SafeName(name) ==
  /\ \A i \in 1..Len(name) : name[i] \notin Separators
  /\ (name # <<>> => Head(name) # ".")
  /\ ~EscapesBase(name)

\* C22: for every string s, sanitize(s) has no path separator and no leading
\* '.', so base.join(sanitize(s)) never resolves outside base; and the
\* filename a session stores is such a name.
C22_SanitizedStaysInBase ==
  /\ (san.pc \in {"once", "twice"} => SafeName(san.once))
  /\ (san.pc = "stored" => SafeName(san.stored))

\* a traversal attempt has been stored as a non-empty name
C22_Witness ==
  /\ san.pc = "stored"
  /\ EscapesBase(san.raw)
  /\ san.stored # <<>>

\* C23: sanitize(sanitize(s)) = sanitize(s) for every string s over letters,
\* digits, '-', '_', '.', '/', '\' and other symbols.
C23_SanitizeIdempotent == san.pc = "twice" => san.twice = san.once

\* a name that the first pass changed has gone through the second pass
C23_Witness ==
  /\ san.pc = "twice"
  /\ san.once # san.raw
  /\ san.once # <<>>

\* the request carries an X-API-Key whose hash is the configured one
KeyValid ==
  /\ req.header.kind = "text"
  /\ hash_api_key(req.header.key) = req.api_key_hash

C25_HandlerOnlyWithKey == req.pc \in {"handler", "handed"} => KeyValid

\* C25 as stated: a request reaches a handler only with a valid key, and one
\* with a missing or wrong key is answered 401.
C25_BadKeyAnswered401 ==
  /\ C25_HandlerOnlyWithKey
  /\ (req.pc = "done" /\ ~KeyValid => req.status = 401)

\* what a request with a missing or wrong key is answered with
C25_BadKeyAnswer ==
  (req.pc = "done" /\ ~KeyValid)
  => req.status = IF req.preflight THEN 200
                  ELSE IF req.over_quota THEN 429
                  ELSE IF req.too_large THEN 413
                  ELSE 401

\* C25 (amended): a request reaches an admin handler only if its X-API-Key
\* hashes to the configured hash; one with a missing or wrong key never
\* reaches a handler and changes neither registry nor files, and it is
\* answered 401 unless a layer outside the key check answered first (CORS
\* preflight 200, rate limit 429, body limit 413).
C25_OnlyKeyedRequestsReachHandlers ==
  /\ [](C25_HandlerOnlyWithKey /\ C25_BadKeyAnswer)
  /\ [][~KeyValid => UNCHANGED sysvars]_vars

\* a request with a wrong key got as far as the key check and was refused
C25_Witness ==
  /\ req.pc = "done" /\ req.status = 401
  /\ req.header.kind = "text" /\ ~KeyValid
  /\ req.extension # {}

\* C26: a delete_file call (no I/O fault having occurred) whose sanitized
\* name named an existing file when the handler looked removes the file and
\* returns success; one whose sanitized name did not exist returns NotFound.
C26_DeleteAnswersOkOrNotFound ==
  \A t \in Tasks :
    (Done(t, "delete") /\ nfaults = 0)
    => task[t].status = IF task[t].found THEN "Ok" ELSE "NotFound"

\* C28: when the complete calls of two sessions that share a target filename
\* have both returned success (no other request having been made and no I/O
\* fault having hit them), the final artifact is the full concatenation of
\* one of the two sessions.
C28_OneSessionWins ==
  \A t1, t2 \in Tasks :
    LET u1 == task[t1].upload_id
        u2 == task[t2].upload_id
    IN ( /\ t1 # t2
         /\ Done(t1, "complete") /\ Done(t2, "complete")
         /\ task[t1].status = "Ok" /\ task[t2].status = "Ok"
         /\ ~task[t1].faulted /\ ~task[t2].faulted
         /\ u1 # u2
         /\ sessions[u1].filename = sessions[u2].filename
         /\ ncalls = MaxCalls - MaxFileCalls + 2 )
       => /\ sessions[u1].filename \in DOMAIN files
          /\ files[sessions[u1].filename]
               \in { LatestConcat(u1, sessions[u1].total_chunks),
                     LatestConcat(u2, sessions[u2].total_chunks) }

\* the names that upload_file, delete_file and the final write of complete
\* work on are files right in files_dir (or files_dir itself)
C30_NamesAreSingleSegments ==
  /\ \A t \in Tasks :
       task[t].op \in {"upload", "delete"}
       => Resolve(task[t].file_path).kind \in {"file", "base"}
  /\ \A u \in DOMAIN sessions :
       Resolve(sessions[u].filename).kind \in {"file", "base"}
  /\ \A t \in Tasks :
       (task[t].op = "complete" /\ task[t].pc \in AssemblyPcs)
       => Resolve(task[t].metadata.filename).kind \in {"file", "base"}

\* a step that changes the staging tree is a step of an ingest or a complete
\* whose id init gave out and the registry held at its lookup, and it changes
\* the staging directory of that id only
C30_StagingStep ==
  \A t \in Tasks :
    task'[t] # task[t]
    => /\ \A k \in DOMAIN chunk_files \cup DOMAIN chunk_files' :
            ( \/ (k \in DOMAIN chunk_files) # (k \in DOMAIN chunk_files')
              \/ chunk_files'[k] # chunk_files[k] )
            => /\ task[t].op \in {"ingest", "complete"}
               /\ task[t].found
               /\ task[t].upload_id \in issued
               /\ k[1] = task[t].upload_id
       /\ chunk_dirs' # chunk_dirs
            => /\ task[t].op = "complete"
               /\ task[t].found
               /\ task[t].upload_id \in issued
               /\ chunk_dirs' = chunk_dirs \ {task[t].upload_id}

\* C30: every path that ingest or complete creates, writes or deletes in the
\* staging tree is built from an id that init generated and that was found in
\* the registry at lookup, and no upload, delete or final write, their names
\* being sanitized single segments, touches a chunk artifact or '.chunks'.
C30_StagingTreeIsolated ==
  []C30_NamesAreSingleSegments /\ [][C30_StagingStep]_vars

\* an upload under the path of a chunk artifact returned success, and the
\* chunk artifact holds what was staged
C30_Witness ==
  \E t \in Tasks :
    /\ Done(t, "upload") /\ task[t].status = "Ok"
    /\ task[t].payload.filename = ChunkPath(1, 0)
    /\ task[t].file_path \in DOMAIN files
    /\ << 1, 0 >> \in DOMAIN chunk_files
    /\ chunk_files[<< 1, 0 >>] = StagedBody(1)

\* a step of an ingest on (A, index) leaves every final artifact, every
\* staging directory, every chunk artifact but that of (A, index) and every
\* session but A as they were, and changes nothing of A but received_chunks,
\* to which it adds at most index
C31_IngestStep ==
  \A t \in Tasks :
    (task[t].op = "ingest" /\ task[t].pc # "done" /\ task'[t] # task[t])
    => LET u == task[t].upload_id
           n == task[t].chunk_number
       IN /\ files' = files
          /\ chunk_dirs' = chunk_dirs
          /\ DOMAIN chunk_files \subseteq DOMAIN chunk_files'
          /\ \A k \in DOMAIN chunk_files' \ {<<u, n>>} :
               k \in DOMAIN chunk_files /\ chunk_files'[k] = chunk_files[k]
          /\ DOMAIN chunked_uploads' = DOMAIN chunked_uploads
          /\ \A v \in DOMAIN chunked_uploads \ {u} :
               chunked_uploads'[v] = chunked_uploads[v]
          /\ u \in DOMAIN chunked_uploads
               => chunked_uploads'[u]
                    \in { chunked_uploads[u],
                          [chunked_uploads[u] EXCEPT !.received_chunks = @ \cup {n}] }

\* C31: an ingest on upload id A (a successful one in particular) changes only
\* A's received_chunks and the chunk artifact of (A, index): every other
\* session's metadata and chunk artifacts, every other chunk of A and every
\* final artifact stay as they are.
C31_IngestTouchesOnlyItsChunk == [][C31_IngestStep]_vars

\* an ingest on the second of two sessions has returned success, with a new
\* body in its chunk artifact, while the first session is in the registry
\* with its chunk artifacts as staged
C31_Witness ==
  \E t \in Tasks :
    /\ Done(t, "ingest") /\ task[t].status = "Ok"
    /\ task[t].upload_id = MaxStaged
    /\ DOMAIN chunked_uploads = StagedIds
    /\ chunk_files[<< MaxStaged, task[t].chunk_number >>] # StagedBody(MaxStaged)
    /\ \A n \in Indices : chunk_files[<< 1, n >>] = StagedBody(1)

\* the upload was initialised with total_size = 0 and a positive chunk_size
EmptyUpload(u) ==
  /\ u \in DOMAIN sessions
  /\ sessions[u].total_size = 0
  /\ sessions[u].chunk_size > 0

\* C32: an upload initialised with total_size = 0 and chunk_size > 0 has
\* total_chunks = 0, and a complete call that finds its session, with no
\* ingest acknowledged before and no I/O fault, succeeds, leaves an empty
\* final artifact and returns size 0.
C32_EmptyUploadCompletes ==
  /\ \A u \in DOMAIN sessions : EmptyUpload(u) => sessions[u].total_chunks = 0
  /\ \A t \in Tasks :
       ( /\ Done(t, "complete") /\ task[t].found
         /\ EmptyUpload(task[t].upload_id)
         /\ acked[task[t].upload_id] = {}
         /\ nfaults = 0 )
       => /\ task[t].status = "Ok"
          /\ task[t].resp.a = 0
          /\ sessions[task[t].upload_id].filename \in DOMAIN files
          /\ files[sessions[task[t].upload_id].filename] = <<>>

\* a complete on an empty upload, with nothing ingested, has returned
C32_Witness ==
  \E t \in Tasks :
    /\ Done(t, "complete") /\ task[t].found
    /\ EmptyUpload(task[t].upload_id)
    /\ acked[task[t].upload_id] = {}
    /\ nfaults = 0
    /\ task[t].status = "Ok"
    /\ assemblies[task[t].upload_id] = 1
====
